---- MODULE Spec2Model ----
(***************************************************************************)
(* A model of src/src/iptree.h: the memory-bounded binary radix tree       *)
(* iptreet<TYPE,ADDRBYTES> that tallies weights per IP prefix, its         *)
(* insertion cache, its prune selector, its histogram walker, and the      *)
(* derived pair tree ip2tree.                                              *)
(*                                                                         *)
(* The heap is a function from node addresses to node objects, so that     *)
(* parent/ptr0/ptr1 and the cache's node pointers are real pointers.       *)
(* Widths are scaled so that TLC can enumerate the trees: a byte has       *)
(* BYTE_BITS bits (8 in the source), an IPv4 key IP4_ADDR_LEN bytes (4),   *)
(* an IPv6 key IP6_ADDR_LEN bytes (16), TYPE has TYPE_BITS bits (64).      *)
(* Every relation between the widths that the source has is kept: the base *)
(* tree is IP6_ADDR_LEN bytes wide, the pair tree twice that, and the      *)
(* histogram's depth cap equals the bit width of the base tree.            *)
(***************************************************************************)
EXTENDS Integers, Sequences, FiniteSets, TLC

(***************************************************************************)
(* Bounds of the model.                                                    *)
(***************************************************************************)
BYTE_BITS == 2
IP4_ADDR_LEN == 1
IP6_ADDR_LEN == 2
TYPE_BITS == 7
MaxOps == 2
MaxNodesArg == 4
MaxLimit == 1
MaxCacheOps == 6

(***************************************************************************)
(* Program constants.                                                      *)
(***************************************************************************)
cache_size == 4
NULL == 0
root == 1
root_depth == 0

RECURSIVE Pow2(_)
Pow2(n) == IF n = 0 THEN 1 ELSE 2 * Pow2(n - 1)

Modulus == Pow2(TYPE_BITS)

ipv6_bits == IP6_ADDR_LEN * BYTE_BITS

max_histogram_depth == ipv6_bits

Min(S) == CHOOSE x \in S : \A y \in S : x <= y

(***************************************************************************)
(* The state.  tree is the iptreet object: its fields node (the heap of    *)
(* node objects, root included), nodes, maxnodes, ctr_added, pruned,       *)
(* cache, cachenext, cache_hits and cache_misses, its template parameter   *)
(* ADDRBYTES, and aborted, which records that the process has died (a      *)
(* failed assert or a null dereference).  ref is a second tree that        *)
(* receives the same calls but never consults its cache.  total, inserted, *)
(* ops and last are history variables of the calls made.                   *)
(***************************************************************************)
VARIABLES tree, ref, total, inserted, ops, last

vars == <<tree, ref, total, inserted, ops, last>>

(***************************************************************************)
(* class node                                                              *)
(***************************************************************************)
\* A constructor that drops its argument: the new node has no parent.
new_node_orphan(p) ==
    [parent |-> NULL, ptr0 |-> NULL, ptr1 |-> NULL, tsum |-> 0, dirty |-> FALSE]

new_node(p) ==
    [parent |-> p, ptr0 |-> NULL, ptr1 |-> NULL, tsum |-> 0, dirty |-> FALSE]

\* operator new: the lowest free address (freed addresses are reused).
Alloc(h) ==
    Min({i \in 1..(Cardinality(DOMAIN h) + 1) : i \notin DOMAIN h})

children(h, n) ==
    (IF h[n].ptr0 # NULL THEN 1 ELSE 0) + (IF h[n].ptr1 # NULL THEN 1 ELSE 0)

term(h, n) ==
    h[n].tsum > 0 /\ h[n].ptr0 = NULL /\ h[n].ptr1 = NULL

RECURSIVE sum(_, _)
sum(h, n) ==
    LET s0 == IF h[n].ptr0 # NULL THEN sum(h, h[n].ptr0) ELSE 0
        s1 == IF h[n].ptr1 # NULL THEN sum(h, h[n].ptr1) ELSE 0
    IN  (h[n].tsum + s0 + s1) % Modulus

nodesum(h, n) == h[n].tsum

\* The nodes ~node() releases: n and everything below it.
RECURSIVE Subtree(_, _)
Subtree(h, n) ==
    {n} \cup (IF h[n].ptr0 # NULL THEN Subtree(h, h[n].ptr0) ELSE {})
        \cup (IF h[n].ptr1 # NULL THEN Subtree(h, h[n].ptr1) ELSE {})

delete_node(h, n) ==
    LET gone == Subtree(h, n)
    IN  [m \in DOMAIN h \ gone |-> h[m]]

\* A set_dirty that marks the node and leaves its parent alone.
set_dirty_local(h, n) == [h EXCEPT ![n].dirty = TRUE]

RECURSIVE set_dirty(_, _)
set_dirty(h, n) ==
    IF h[n].dirty = FALSE
    THEN LET h1 == [h EXCEPT ![n].dirty = TRUE]
             p == h[n].parent
         IN  IF p # NULL /\ h1[p].dirty = FALSE THEN set_dirty(h1, p) ELSE h1
    ELSE h

node_add(h, n, val) ==
    set_dirty([h EXCEPT ![n].tsum = (@ + val) % Modulus], n)

(***************************************************************************)
(* cache                                                                   *)
(***************************************************************************)
cache_element(width, p) ==
    [addr |-> [j \in 1..width |-> 0], ptr |-> p]

CacheSlots == 0..(cache_size - 1)

\* A cache_remove that forgets to clear the slot.
cache_remove_none(c, p) == c

cache_remove(c, p) ==
    LET found == {i \in CacheSlots : c[i].ptr = p}
    IN  IF found = {} THEN c ELSE [c EXCEPT ![Min(found)].ptr = NULL]

\* memcmp(a, b, n) == 0 over the first n bytes
memcmp0(a, b, n) == \A j \in 1..n : a[j] = b[j]

\* A search that never finds anything.
cache_search_miss(c, addr, addrlen) == -1

\* the slot returned, or -1
cache_search(c, addr, addrlen) ==
    LET found == {i \in CacheSlots : c[i].ptr # NULL /\ memcmp0(c[i].addr, addr, addrlen)}
    IN  IF found = {} THEN -1 ELSE Min(found)

\* memcpy(dst, src, n): the first n bytes are overwritten, the rest stay.
memcpy(dst, src, n) ==
    [j \in DOMAIN dst |-> IF j <= n THEN src[j] ELSE dst[j]]

cache_replace(t, addr, addrlen, ptr) ==
    LET nxt == IF t.cachenext + 1 >= cache_size THEN 0 ELSE t.cachenext + 1
    IN  [t EXCEPT !.cachenext = nxt,
                  !.cache = [@ EXCEPT ![nxt] =
                                [addr |-> memcpy(@.addr, addr, addrlen), ptr |-> ptr]]]

(***************************************************************************)
(* bit(addr,i): bit i of the byte string, bit 0 the MSB of byte 0.         *)
(***************************************************************************)
bit(addr, i) ==
    (addr[(i \div BYTE_BITS) + 1] \div Pow2((BYTE_BITS - 1) - (i % BYTE_BITS))) % 2

\* setbit(addr,i) on a buffer that holds byte i / 8.
setbit(addr, i) ==
    LET j == (i \div BYTE_BITS) + 1
        mask == Pow2((BYTE_BITS - 1) - (i % BYTE_BITS))
    IN  [addr EXCEPT ![j] = IF (@ \div mask) % 2 = 1 THEN @ ELSE @ + mask]

(***************************************************************************)
(* pruning                                                                 *)
(***************************************************************************)
\* A prune that frees the child without folding its tally into the parent.
prune_child_lossy(t, n, which) ==
    LET c == t.node[n][which]
    IN  IF c = NULL THEN t
        ELSE IF ~term(t.node, c) THEN [t EXCEPT !.aborted = TRUE]
        ELSE [t EXCEPT
                !.node = delete_node([@ EXCEPT ![n][which] = NULL], c),
                !.cache = cache_remove(@, c),
                !.pruned = @ + 1,
                !.nodes = @ - 1]

\* A prune that frees the child without incrementing tree.pruned.
prune_child_untallied(t, n, which) ==
    LET c == t.node[n][which]
    IN  IF c = NULL THEN t
        ELSE IF ~term(t.node, c) THEN [t EXCEPT !.aborted = TRUE]
        ELSE [t EXCEPT
                !.node = delete_node(
                            [@ EXCEPT ![n].tsum = (@ + t.node[c].tsum) % Modulus,
                                      ![n][which] = NULL], c),
                !.cache = cache_remove(@, c),
                !.nodes = @ - 1]

\* A prune that frees the child without decrementing tree.nodes.
prune_child_uncounted(t, n, which) ==
    LET c == t.node[n][which]
    IN  IF c = NULL THEN t
        ELSE IF ~term(t.node, c) THEN [t EXCEPT !.aborted = TRUE]
        ELSE [t EXCEPT
                !.node = delete_node(
                            [@ EXCEPT ![n].tsum = (@ + t.node[c].tsum) % Modulus,
                                      ![n][which] = NULL], c),
                !.cache = cache_remove(@, c),
                !.pruned = @ + 1]

\* One of the two if-blocks of node::prune, for the child slot `which`.
prune_child(t, n, which) ==
    LET c == t.node[n][which]
    IN  IF c = NULL THEN t
        ELSE IF ~term(t.node, c) THEN [t EXCEPT !.aborted = TRUE]
        ELSE [t EXCEPT
                !.node = delete_node(
                            [@ EXCEPT ![n].tsum = (@ + t.node[c].tsum) % Modulus,
                                      ![n][which] = NULL], c),
                !.cache = cache_remove(@, c),
                !.pruned = @ + 1,
                !.nodes = @ - 1]

node_prune(t, n) ==
    LET t0 == prune_child(t, n, "ptr0")
    IN  IF t0.aborted THEN t0 ELSE prune_child(t0, n, "ptr1")

best(best_node, depth, fault) ==
    [best_node |-> best_node, depth |-> depth, fault |-> fault]

\* A comparison that prefers the higher sum.
better_heavier(h, ptr0_best, ptr1_best) ==
    LET ptr0_best_sum == sum(h, ptr0_best.best_node)
        ptr1_best_sum == sum(h, ptr1_best.best_node)
    IN  IF ptr0_best_sum > ptr1_best_sum THEN ptr0_best
        ELSE IF ptr1_best_sum > ptr0_best_sum THEN ptr1_best
        ELSE IF ptr0_best.depth > ptr1_best.depth THEN ptr0_best
        ELSE ptr1_best

\* A comparison that breaks ties towards the shallower node.
better_shallower(h, ptr0_best, ptr1_best) ==
    LET ptr0_best_sum == sum(h, ptr0_best.best_node)
        ptr1_best_sum == sum(h, ptr1_best.best_node)
    IN  IF ptr0_best_sum < ptr1_best_sum THEN ptr0_best
        ELSE IF ptr1_best_sum < ptr0_best_sum THEN ptr1_best
        ELSE IF ptr0_best.depth < ptr1_best.depth THEN ptr0_best
        ELSE ptr1_best

\* ptr0_best against ptr1_best at the end of best_to_prune (case 5).
better(h, ptr0_best, ptr1_best) ==
    LET ptr0_best_sum == sum(h, ptr0_best.best_node)
        ptr1_best_sum == sum(h, ptr1_best.best_node)
    IN  IF ptr0_best_sum < ptr1_best_sum THEN ptr0_best
        ELSE IF ptr1_best_sum < ptr0_best_sum THEN ptr1_best
        ELSE IF ptr0_best.depth > ptr1_best.depth THEN ptr0_best
        ELSE ptr1_best

\* fault: the assert of case 1 fails, or line 150 dereferences a null ptr0.
RECURSIVE best_to_prune(_, _, _)
best_to_prune(h, n, my_depth) ==
    LET p0 == h[n].ptr0
        p1 == h[n].ptr1
    IN  IF term(h, n) THEN best(NULL, my_depth, TRUE)
        ELSE IF p0 # NULL /\ term(h, p0) /\ p1 = NULL THEN best(n, my_depth, FALSE)
        ELSE IF p1 # NULL /\ term(h, p1) /\ p0 = NULL THEN best(n, my_depth, FALSE)
        ELSE IF p0 # NULL /\ term(h, p0) /\ p1 # NULL /\ term(h, p1)
             THEN best(n, my_depth, FALSE)
        ELSE IF p0 # NULL /\ p1 = NULL THEN best_to_prune(h, p0, my_depth + 1)
        ELSE IF p1 # NULL /\ p0 = NULL THEN best_to_prune(h, p1, my_depth + 1)
        ELSE IF p0 = NULL THEN best(NULL, my_depth, TRUE)
        ELSE IF term(h, p0) /\ ~term(h, p1) THEN best_to_prune(h, p1, my_depth + 1)
        ELSE IF term(h, p1) /\ ~term(h, p0) THEN best_to_prune(h, p0, my_depth + 1)
        ELSE LET ptr0_best == best_to_prune(h, p0, my_depth + 1)
             IN  IF ptr0_best.fault THEN ptr0_best
                 ELSE LET ptr1_best == best_to_prune(h, p1, my_depth + 1)
                      IN  IF ptr1_best.fault THEN ptr1_best
                          ELSE better(h, ptr0_best, ptr1_best)

\* A prune that drops the value tnode->prune() returns and returns 0.
prune_returns_zero(t) ==
    IF term(t.node, root) THEN [t |-> t, ret |-> 0]
    ELSE LET b == best_to_prune(t.node, root, root_depth)
         IN  IF b.fault THEN [t |-> [t EXCEPT !.aborted = TRUE], ret |-> 0]
             ELSE IF b.best_node # NULL
                  THEN [t |-> node_prune(t, b.best_node), ret |-> 0]
                  ELSE [t |-> t, ret |-> 0]

\* iptreet::prune: the tree afterwards and the value returned.
prune(t) ==
    IF term(t.node, root) THEN [t |-> t, ret |-> 0]
    ELSE LET b == best_to_prune(t.node, root, root_depth)
         IN  IF b.fault THEN [t |-> [t EXCEPT !.aborted = TRUE], ret |-> 0]
             ELSE IF b.best_node # NULL
                  THEN [t |-> node_prune(t, b.best_node), ret |-> 1]
                  ELSE [t |-> t, ret |-> 0]

\* An `if` where the source has `while`: at most one prune.
prune_loop_once(t) ==
    IF t.nodes > (t.maxnodes * 9) \div 10 THEN prune(t).t ELSE t

RECURSIVE prune_loop(_)
prune_loop(t) ==
    IF t.nodes > (t.maxnodes * 9) \div 10
    THEN LET r == prune(t)
         IN  IF r.t.aborted \/ r.ret = 0 THEN r.t ELSE prune_loop(r.t)
    ELSE t

\* A test with > where the source has >=.
prune_if_greater_strict(t, limit) ==
    IF t.nodes > t.maxnodes THEN prune_loop(t) ELSE t

\* A prune_if_greater that never prunes.
prune_if_greater_never(t, limit) == t

prune_if_greater(t, limit) ==
    IF t.nodes >= t.maxnodes THEN prune_loop(t) ELSE t

(***************************************************************************)
(* iptreet::add                                                            *)
(***************************************************************************)
RECURSIVE add_walk(_, _, _, _, _, _, _)
add_walk(t, addr, addrlen, addr_bits, val, ptr, depth) ==
    IF depth = addr_bits
    THEN cache_replace([t EXCEPT !.node = node_add(@, ptr, val)], addr, addrlen, ptr)
    ELSE LET which == IF bit(addr, depth) = 0 THEN "ptr0" ELSE "ptr1"
         IN  IF t.node[ptr][which] = NULL
             THEN LET fresh == Alloc(t.node)
                      t1 == [t EXCEPT
                               !.node = [@ EXCEPT ![ptr][which] = fresh]
                                            @@ (fresh :> new_node(ptr)),
                               !.nodes = @ + 1,
                               !.ctr_added = @ + 1]
                  IN  add_walk(t1, addr, addrlen, addr_bits, val, fresh, depth + 1)
             ELSE add_walk(t, addr, addrlen, addr_bits, val, t.node[ptr][which], depth + 1)

\* The part of add after prune_if_greater; use_cache = FALSE is the tree
\* whose cache never hits.
add_body(t, addr, addrlen0, val, use_cache) ==
    LET addrlen == IF addrlen0 > t.ADDRBYTES THEN t.ADDRBYTES ELSE addrlen0
        addr_bits == addrlen * BYTE_BITS
        i == IF use_cache THEN cache_search(t.cache, addr, addrlen) ELSE -1
    IN  IF i >= 0
        THEN IF t.cache[i].ptr \notin DOMAIN t.node
             THEN \* cache[i].ptr->add(val) through a pointer to a freed node
                  [t EXCEPT !.aborted = TRUE]
             ELSE [t EXCEPT !.cache_hits = @ + 1,
                            !.node = node_add(@, t.cache[i].ptr, val)]
        ELSE add_walk([t EXCEPT !.cache_misses = @ + 1],
                      addr, addrlen, addr_bits, val, root, 0)

add(t, addr, addrlen, val, use_cache) ==
    LET t1 == prune_if_greater(t, t.maxnodes)
    IN  IF t1.aborted THEN t1 ELSE add_body(t1, addr, addrlen, val, use_cache)

(***************************************************************************)
(* histogram support.  get_histogram yields the entries pushed, in order,  *)
(* and overrun: whether setbit(addr1,depth) wrote past the end of addr1,   *)
(* which happens at a node of depth 8*ADDRBYTES (the byte written is       *)
(* outside the array, so addr1 itself is unchanged by it).                 *)
(***************************************************************************)
addr_elem(addr, depth, count) ==
    [addr |-> addr, depth |-> depth, count |-> count]

RECURSIVE get_histogram(_, _, _, _)
get_histogram(t, depth, addr, ptr) ==
    LET h == t.node
        here == IF nodesum(h, ptr) # 0
                THEN <<addr_elem(addr, depth, nodesum(h, ptr))>> ELSE <<>>
    IN  IF depth > max_histogram_depth THEN [entries |-> here, overrun |-> FALSE]
        ELSE LET zero == [j \in 1..t.ADDRBYTES |-> 0]
                 addr0 == memcpy(zero, addr, (depth + (BYTE_BITS - 1)) \div BYTE_BITS)
                 over == (depth \div BYTE_BITS) + 1 > t.ADDRBYTES
                 addr1 == IF over THEN addr0 ELSE setbit(addr0, depth)
                 none == [entries |-> <<>>, overrun |-> FALSE]
                 h0 == IF h[ptr].ptr0 # NULL
                       THEN get_histogram(t, depth + 1, addr0, h[ptr].ptr0) ELSE none
                 h1 == IF h[ptr].ptr1 # NULL
                       THEN get_histogram(t, depth + 1, addr1, h[ptr].ptr1) ELSE none
             IN  [entries |-> here \o h0.entries \o h1.entries,
                  overrun |-> over \/ h0.overrun \/ h1.overrun]

histogram(t) ==
    get_histogram(t, 0, [j \in 1..t.ADDRBYTES |-> 0], root)

(***************************************************************************)
(* ip2tree                                                                 *)
(***************************************************************************)
PAIR_ADDRBYTES == 2 * IP6_ADDR_LEN

\* An interleaving that puts the bit of addr2 where the bit of addr1 went.
RECURSIVE interleave_same_bit(_, _, _, _, _)
interleave_same_bit(addr, addr1, addr2, addrlen, i) ==
    IF i >= addrlen * BYTE_BITS THEN addr
    ELSE LET a == IF bit(addr1, i) = 1 THEN setbit(addr, i * 2) ELSE addr
             b == IF bit(addr2, i) = 1 THEN setbit(a, i * 2) ELSE a
         IN  interleave_same_bit(b, addr1, addr2, addrlen, i + 1)

\* The interleaving loop of add_pair, from bit i on.
RECURSIVE interleave(_, _, _, _, _)
interleave(addr, addr1, addr2, addrlen, i) ==
    IF i >= addrlen * BYTE_BITS THEN addr
    ELSE LET a == IF bit(addr1, i) = 1 THEN setbit(addr, i * 2) ELSE addr
             b == IF bit(addr2, i) = 1 THEN setbit(a, i * 2 + 1) ELSE a
         IN  interleave(b, addr1, addr2, addrlen, i + 1)

add_pair(t, addr1, addr2, addrlen, val, use_cache) ==
    LET addr == interleave([j \in 1..PAIR_ADDRBYTES |-> 0], addr1, addr2, addrlen, 0)
    IN  add(t, addr, addrlen * 2, val, use_cache)

\* The loop of un_pair, from i on: addr1 and addr2 are the caller's buffers.
RECURSIVE un_pair_loop(_, _, _, _, _)
un_pair_loop(addr1, addr2, addr, addrlen, i) ==
    IF i >= (addrlen * BYTE_BITS) \div 2 THEN [addr1 |-> addr1, addr2 |-> addr2]
    ELSE LET a1 == IF bit(addr, i * 2) = 1 THEN setbit(addr1, i) ELSE addr1
             a2 == IF bit(addr, i * 2 + 1) = 1 THEN setbit(addr2, i) ELSE addr2
         IN  un_pair_loop(a1, a2, addr, addrlen, i + 1)

un_pair(addr1, addr2, addr, addrlen, depth) ==
    LET r == un_pair_loop(addr1, addr2, addr, addrlen, 0)
    IN  [addr1 |-> r.addr1, addr2 |-> r.addr2,
         depth1 |-> (depth + 1) \div 2, depth2 |-> depth \div 2]

\* ip2str up to its call of un_pair: two zeroed IPv6-sized buffers.
ip2str_un_pair(addr, addrlen, depth) ==
    un_pair([j \in 1..IP6_ADDR_LEN |-> 0], [j \in 1..IP6_ADDR_LEN |-> 0],
            addr, addrlen, depth)

(***************************************************************************)
(* The calls made on the tree.  Keys are "10.0.0.x"-like: the last byte    *)
(* varies, and a one-byte key is just that byte, so that a short key can   *)
(* be the leading bytes of a longer one.                                   *)
(***************************************************************************)
LastBytes == {1, 2}

KeyLens == {0, IP4_ADDR_LEN, IP6_ADDR_LEN}

Key(len, x) ==
    [j \in 1..len |-> IF j = len THEN x ELSE IF j = 1 THEN 2 ELSE 0]

Keys == {Key(len, x) : len \in KeyLens, x \in LastBytes}

Weights == {0, 1, 100}

\* The last call: its name, its arguments, the value it returned and the
\* size() that its pruning step left.
Call(op, addrlen, val, limit, ret, pruned_size) ==
    [op |-> op, addrlen |-> addrlen, val |-> val, limit |-> limit, ret |-> ret,
     pruned_size |-> pruned_size]

MaxNodesChoices == {0, MaxNodesArg}

\* iptreet(int maxnodes_)
iptreet(width, maxnodes_) ==
    [ADDRBYTES |-> width, node |-> (root :> new_node(NULL)), nodes |-> 0,
     maxnodes |-> maxnodes_, ctr_added |-> 0, pruned |-> 0,
     cache |-> [i \in CacheSlots |-> cache_element(width, NULL)],
     cachenext |-> 0, cache_hits |-> 0, cache_misses |-> 0, aborted |-> FALSE]

InitTree(width) ==
    /\ \E maxnodes_ \in MaxNodesChoices :
          /\ tree = iptreet(width, maxnodes_)
          /\ ref = iptreet(width, maxnodes_)
    /\ total = 0
    /\ inserted = {}
    /\ ops = 0
    /\ last = Call("new", 0, 0, 0, 0, 0)

Init == InitTree(IP6_ADDR_LEN)

Add(addr, val) ==
    /\ ~tree.aborted
    /\ ops < MaxOps
    /\ tree' = add(tree, addr, Len(addr), val, TRUE)
    /\ ref' = IF ref.aborted THEN ref ELSE add(ref, addr, Len(addr), val, FALSE)
    /\ total' = IF tree'.aborted THEN total ELSE (total + val) % Modulus
    /\ inserted' = IF tree'.aborted THEN inserted ELSE inserted \cup {addr}
    /\ ops' = ops + 1
    /\ last' = Call("add", Len(addr), val, tree.maxnodes, 0,
                    prune_if_greater(tree, tree.maxnodes).nodes)

Prune ==
    /\ ~tree.aborted
    /\ LET r == prune(tree)
       IN  /\ tree' = r.t
           /\ last' = Call("prune", 0, 0, 0, r.ret, tree'.nodes)
    /\ ref' = IF ref.aborted THEN ref ELSE prune(ref).t
    /\ UNCHANGED <<total, inserted, ops>>

PruneIfGreater(limit) ==
    /\ ~tree.aborted
    /\ tree' = prune_if_greater(tree, limit)
    /\ ref' = IF ref.aborted THEN ref ELSE prune_if_greater(ref, limit)
    /\ last' = Call("prune_if_greater", 0, 0, limit, 0, tree'.nodes)
    /\ UNCHANGED <<total, inserted, ops>>

AddPair(addr1, addr2, val) ==
    /\ ~tree.aborted
    /\ ops < MaxOps
    /\ Len(addr1) = Len(addr2)
    /\ tree' = add_pair(tree, addr1, addr2, Len(addr1), val, TRUE)
    /\ ref' = IF ref.aborted THEN ref
              ELSE add_pair(ref, addr1, addr2, Len(addr1), val, FALSE)
    /\ total' = IF tree'.aborted THEN total ELSE (total + val) % Modulus
    /\ inserted' = IF tree'.aborted THEN inserted
                   ELSE inserted \cup {<<addr1, addr2>>}
    /\ ops' = ops + 1
    /\ last' = Call("add_pair", 2 * Len(addr1), val, tree.maxnodes, 0,
                    prune_if_greater(tree, tree.maxnodes).nodes)

Next ==
    \/ \E addr \in Keys, val \in Weights : Add(addr, val)
    \/ Prune
    \/ \E limit \in 0..MaxLimit : PruneIfGreater(limit)

Spec == Init /\ [][Next]_vars

\* The same calls with positive weights only; the second weight makes a
\* tally of 1 wrap around to 0.
PositiveWeights == {1, Modulus - 1}

NextPositive ==
    \/ \E addr \in Keys, val \in PositiveWeights : Add(addr, val)
    \/ Prune
    \/ \E limit \in 0..MaxLimit : PruneIfGreater(limit)

SpecPositive == Init /\ [][NextPositive]_vars

\* The base tree constructed with the smallest positive ceiling or with
\* MaxNodesArg.
InitCeiling ==
    /\ \E maxnodes_ \in {1, MaxNodesArg} :
          /\ tree = iptreet(IP6_ADDR_LEN, maxnodes_)
          /\ ref = iptreet(IP6_ADDR_LEN, maxnodes_)
    /\ total = 0
    /\ inserted = {}
    /\ ops = 0
    /\ last = Call("new", 0, 0, 0, 0, 0)

SpecCeiling == InitCeiling /\ [][Next]_vars

\* Longer runs, for the cache: up to MaxCacheOps adds of weight 1, enough
\* for cachenext to go round, each followed by at most one direct prune().
AddCached(addr) ==
    /\ ~tree.aborted
    /\ ops < MaxCacheOps
    /\ tree' = add(tree, addr, Len(addr), 1, TRUE)
    /\ total' = IF tree'.aborted THEN total ELSE (total + 1) % Modulus
    /\ inserted' = IF tree'.aborted THEN inserted ELSE inserted \cup {addr}
    /\ ops' = ops + 1
    /\ last' = Call("add", Len(addr), 1, tree.maxnodes, 0,
                    prune_if_greater(tree, tree.maxnodes).nodes)
    /\ UNCHANGED ref

PruneAfterAdd ==
    /\ ~tree.aborted
    /\ last.op = "add"
    /\ LET r == prune(tree)
       IN  /\ tree' = r.t
           /\ last' = Call("prune", 0, 0, 0, r.ret, tree'.nodes)
    /\ UNCHANGED <<ref, total, inserted, ops>>

NextCache ==
    \/ \E addr \in Keys : AddCached(addr)
    \/ PruneAfterAdd

SpecCache == Init /\ [][NextCache]_vars

\* The pair tree: ip2tree is iptreet<uint64_t,32>, fed by add_pair.
PairInputs ==
    {<<Key(len, x), Key(len, y)>> :
        len \in {IP4_ADDR_LEN, IP6_ADDR_LEN}, x \in {1}, y \in LastBytes}

InitPair == InitTree(PAIR_ADDRBYTES)

NextPair ==
    \/ \E p \in PairInputs, val \in Weights : AddPair(p[1], p[2], val)
    \/ Prune

SpecPair == InitPair /\ [][NextPair]_vars

\* add_pair of two addresses of one length on a new pair tree, and then
\* ip2str's un_pair of the interleaved buffer at some depth.
AddrBytes == {0, 1, Pow2(BYTE_BITS) - 2}

RECURSIVE Addrs(_)
Addrs(len) ==
    IF len = 0 THEN {<<>>}
    ELSE {Append(a, b) : a \in Addrs(len - 1), b \in AddrBytes}

AddPairKept(addr1, addr2) ==
    /\ last.op = "new"
    /\ Len(addr1) = Len(addr2)
    /\ tree' = add_pair(tree, addr1, addr2, Len(addr1), 1, TRUE)
    /\ ref' = add_pair(ref, addr1, addr2, Len(addr1), 1, FALSE)
    /\ total' = 1
    /\ inserted' = {<<addr1, addr2>>}
    /\ ops' = 1
    /\ last' = [op |-> "add_pair", addr1 |-> addr1, addr2 |-> addr2,
                addr |-> interleave([j \in 1..PAIR_ADDRBYTES |-> 0],
                                    addr1, addr2, Len(addr1), 0)]

UnPair(depth) ==
    /\ last.op = "add_pair"
    /\ last' = [op |-> "un_pair", addr1 |-> last.addr1, addr2 |-> last.addr2,
                depth |-> depth,
                out |-> ip2str_un_pair(last.addr, PAIR_ADDRBYTES, depth)]
    /\ UNCHANGED <<tree, ref, total, inserted, ops>>

NextUnPair ==
    \/ \E len \in KeyLens : \E addr1 \in Addrs(len), addr2 \in Addrs(len) :
          AddPairKept(addr1, addr2)
    \/ \E depth \in 0..(PAIR_ADDRBYTES * BYTE_BITS) : UnPair(depth)

SpecUnPair == InitPair /\ [][NextUnPair]_vars

(***************************************************************************)
(* Vocabulary of the properties.                                           *)
(***************************************************************************)
Reach(h) == Subtree(h, root)

\* The node reached from the root by the first d bits of the key k, or NULL.
RECURSIVE Descend(_, _, _, _, _)
Descend(h, k, n, i, d) ==
    IF n = NULL \/ i = d THEN n
    ELSE Descend(h, k, IF bit(k, i) = 0 THEN h[n].ptr0 ELSE h[n].ptr1, i + 1, d)

NodeAt(h, k, d) == Descend(h, k, root, 0, d)

RECURSIVE DepthOf(_, _)
DepthOf(h, n) == IF n = root THEN 0 ELSE 1 + DepthOf(h, h[n].parent)

\* Every node's local count, by the node's position: <<bit path, tsum>>.
RECURSIVE LocalsFrom(_, _, _)
LocalsFrom(h, n, path) ==
    {<<path, h[n].tsum>>}
      \cup (IF h[n].ptr0 # NULL THEN LocalsFrom(h, h[n].ptr0, Append(path, 0)) ELSE {})
      \cup (IF h[n].ptr1 # NULL THEN LocalsFrom(h, h[n].ptr1, Append(path, 1)) ELSE {})

Locals(t) == LocalsFrom(t.node, root, <<>>)

RECURSIVE CountSum(_)
CountSum(entries) ==
    IF entries = <<>> THEN 0
    ELSE (Head(entries).count + CountSum(Tail(entries))) % Modulus

KeyBits(t) == t.ADDRBYTES * BYTE_BITS

(***************************************************************************)
(* C1 - Conservation: after any sequence of add calls interleaved with     *)
(* prune() and prune_if_greater() calls (the prunes add triggers and the   *)
(* adds served from the cache included), sum() equals the sum of all the   *)
(* weights supplied to add, modulo 2^TYPE_BITS.                            *)
(***************************************************************************)
Conservation == sum(tree.node, root) = total

\* Two adds of 100 to one key (the second served from the cache, the total
\* wrapped) and a prune afterwards.
ConservationWitness ==
    /\ tree.cache_hits > 0
    /\ tree.pruned > 0
    /\ last.op = "prune"
    /\ total = (100 + 100) % Modulus
    /\ sum(tree.node, root) = total

(***************************************************************************)
(* C2 - as claimed: in every state reachable by add calls, size() <=       *)
(* max_nodes (here for the tree constructed with max_nodes = MaxNodesArg). *)
(***************************************************************************)
SizeNeverExceedsMaxNodes ==
    tree.maxnodes = MaxNodesArg => tree.nodes <= tree.maxnodes

(***************************************************************************)
(* C2 - as amended: size() <= max_nodes holds inside add at the moment its *)
(* prune_if_greater(max_nodes) step returns; the walk that follows creates *)
(* at most 8*len nodes on top of that, so size() may exceed max_nodes when *)
(* add returns.                                                            *)
(***************************************************************************)
SizeWithinMaxNodesAfterAddsPrune ==
    (last.op = "add" /\ ~tree.aborted) =>
        /\ last.pruned_size <= tree.maxnodes
        /\ tree.nodes <= last.pruned_size + last.addrlen * BYTE_BITS

\* An add that pruned down to the ceiling and then grew past it.
SizeOvershootWitness ==
    /\ last.op = "add"
    /\ ~tree.aborted
    /\ tree.maxnodes > 0
    /\ tree.pruned > 0
    /\ last.pruned_size <= tree.maxnodes
    /\ tree.nodes > tree.maxnodes

(***************************************************************************)
(* C3 - The cache is transparent: after every sequence of calls every      *)
(* node's local count is the one the same sequence produces on a tree      *)
(* whose cache never hits.                                                 *)
(***************************************************************************)
CacheTransparent ==
    (~tree.aborted /\ ~ref.aborted) => Locals(tree) = Locals(ref)

(***************************************************************************)
(* C4 - Cache coherence: every non-empty cache slot (k, p) refers to a     *)
(* live node p that is reached from the root by descending leading bits of *)
(* k; no slot refers to a node that a prune has freed.                     *)
(***************************************************************************)
CacheCoherent ==
    \A i \in CacheSlots :
        LET p == tree.cache[i].ptr
            k == tree.cache[i].addr
        IN  p # NULL =>
              /\ p \in DOMAIN tree.node
              /\ p \in Reach(tree.node)
              /\ \E d \in 0..KeyBits(tree) : NodeAt(tree.node, k, d) = p

\* A prune has emptied the slot that the first add filled; the slot that
\* the second add filled is still in use.
CacheCoherentWitness ==
    /\ tree.pruned > 0
    /\ tree.cache_misses >= 2
    /\ tree.cache[1].ptr = NULL
    /\ tree.cache[2].ptr # NULL
    /\ tree.cache[2].ptr \in Reach(tree.node)

(***************************************************************************)
(* C5 - Bounded size by argument: after prune_if_greater(L) returns,       *)
(* size() <= L, provided at least two distinct keys have been inserted.    *)
(***************************************************************************)
PruneIfGreaterBoundsSize ==
    (last.op = "prune_if_greater" /\ ~tree.aborted /\ Cardinality(inserted) >= 2)
        => tree.nodes <= last.limit

(***************************************************************************)
(* C6 - Histogram totality: in every reachable state of the base tree and  *)
(* of the pair tree, the counts of the entries get_histogram emits add up  *)
(* to sum().                                                               *)
(***************************************************************************)
HistogramTotal ==
    ~tree.aborted =>
        CountSum(histogram(tree).entries) = sum(tree.node, root)

(***************************************************************************)
(* C7 - the scenario: from an empty tree, add(10.0.0.1, 4, 100) and        *)
(* add(10.0.0.2, 4, 1), nothing pruned yet.  The two keys are IPv4 keys    *)
(* whose last bytes are 1 and 2, so they part at bit 8*len - 2.            *)
(***************************************************************************)
K1 == Key(IP4_ADDR_LEN, 1)

K2 == Key(IP4_ADDR_LEN, 2)

IP4Bits == IP4_ADDR_LEN * BYTE_BITS

Scenario7 ==
    /\ ops = 2
    /\ inserted = {K1, K2}
    /\ last.op = "add"
    /\ last.val = 1
    /\ ~tree.aborted
    /\ tree.pruned = 0
    /\ tree.nodes = 2 * IP4Bits - (IP4Bits - 2)
    /\ NodeAt(tree.node, K1, IP4Bits) # NULL
    /\ NodeAt(tree.node, K2, IP4Bits) # NULL
    /\ tree.node[NodeAt(tree.node, K1, IP4Bits)].tsum = 100
    /\ tree.node[NodeAt(tree.node, K2, IP4Bits)].tsum = 1

(***************************************************************************)
(* C7 - as claimed: one prune() after the scenario collapses the two keys  *)
(* together into a common parent one bit above the leaves (depth 31),      *)
(* whose local count is 101.                                               *)
(***************************************************************************)
PruneCollapsesPairInto101 ==
    [][(Scenario7 /\ last'.op = "prune") =>
         LET p1 == NodeAt(tree'.node, K1, IP4Bits - 1)
             p2 == NodeAt(tree'.node, K2, IP4Bits - 1)
         IN  /\ p1 # NULL
             /\ p1 = p2
             /\ children(tree'.node, p1) = 0
             /\ tree'.node[p1].tsum = 101]_vars

(***************************************************************************)
(* C7 - as amended: one prune() after the scenario collapses only the      *)
(* lighter key 10.0.0.2: its leaf is folded into its own depth-31 parent,  *)
(* whose local count becomes 1 and which is then childless; the leaf of    *)
(* 10.0.0.1 keeps its local count 100 under a different depth-31 parent,   *)
(* and size() drops by one.                                                *)
(***************************************************************************)
PruneCollapsesLighterKeyOnly ==
    [][(Scenario7 /\ last'.op = "prune") =>
         LET p1 == NodeAt(tree'.node, K1, IP4Bits - 1)
             p2 == NodeAt(tree'.node, K2, IP4Bits - 1)
             l1 == NodeAt(tree'.node, K1, IP4Bits)
         IN  /\ last'.ret = 1
             /\ p2 # NULL /\ p1 # NULL /\ p1 # p2
             /\ children(tree'.node, p2) = 0
             /\ tree'.node[p2].tsum = 1
             /\ l1 # NULL
             /\ tree'.node[l1].tsum = 100
             /\ tree'.node[p1].tsum = 0
             /\ tree'.nodes = tree.nodes - 1
             /\ tree'.pruned = 1]_vars

\* The state that the prune of the scenario leaves.
Scenario7PrunedWitness ==
    /\ ops = 2
    /\ inserted = {K1, K2}
    /\ last.op = "prune"
    /\ last.ret = 1
    /\ tree.pruned = 1
    /\ total = 101
    /\ NodeAt(tree.node, K1, IP4Bits) # NULL
    /\ tree.node[NodeAt(tree.node, K1, IP4Bits)].tsum = 100
    /\ NodeAt(tree.node, K2, IP4Bits) = NULL
    /\ tree.node[NodeAt(tree.node, K2, IP4Bits - 1)].tsum = 1

(***************************************************************************)
(* C8 - Selector minimality: whenever prune() collapses a node, that node  *)
(* is a prune candidate (at least one child, every present child           *)
(* terminal) whose subtree sum is minimal among all candidates of the      *)
(* tree, and among the candidates of that sum it has the greatest depth.   *)
(***************************************************************************)
Candidate(h, n) ==
    /\ children(h, n) >= 1
    /\ h[n].ptr0 # NULL => term(h, h[n].ptr0)
    /\ h[n].ptr1 # NULL => term(h, h[n].ptr1)

Candidates(h) == {n \in Reach(h) : Candidate(h, n)}

\* The nodes that had children before the step and have none after it.
Collapsed ==
    {n \in DOMAIN tree.node :
        /\ children(tree.node, n) > 0
        /\ n \in DOMAIN tree'.node
        /\ children(tree'.node, n) = 0}

SelectorMinimal ==
    [][(last'.op = "prune" /\ last'.ret = 1 /\ ~tree'.aborted) =>
         /\ Cardinality(Collapsed) = 1
         /\ \A n \in Collapsed :
              /\ Candidate(tree.node, n)
              /\ \A m \in Candidates(tree.node) :
                   /\ sum(tree.node, n) <= sum(tree.node, m)
                   /\ sum(tree.node, m) = sum(tree.node, n) =>
                        DepthOf(tree.node, m) <= DepthOf(tree.node, n)]_vars

\* A prune has just collapsed a node n (now childless) although a shallower
\* candidate m of the same sum, in another part of the tree, was there: the
\* tie went to the deeper node.
SelectorTieWitness ==
    /\ last.op = "prune"
    /\ last.ret = 1
    /\ tree.pruned = 1
    /\ \E n \in Reach(tree.node), m \in Candidates(tree.node) :
          /\ term(tree.node, n)
          /\ n \notin Subtree(tree.node, m)
          /\ sum(tree.node, m) = tree.node[n].tsum
          /\ DepthOf(tree.node, m) < DepthOf(tree.node, n)
          /\ \A c \in Candidates(tree.node) :
                sum(tree.node, c) >= tree.node[n].tsum

(***************************************************************************)
(* C9 - Zero-length keys are tallied at the root: every add(addr, 0, w)    *)
(* increases the root's local count by w and changes no other node's local *)
(* count (compared with the tree that add's own prune_if_greater step      *)
(* leaves).                                                                *)
(***************************************************************************)
ZeroLengthTalliedAtRoot ==
    [][(last'.op = "add" /\ last'.addrlen = 0 /\ ~tree'.aborted) =>
         LET before == prune_if_greater(tree, tree.maxnodes).node
         IN  /\ DOMAIN tree'.node = DOMAIN before
             /\ \A n \in DOMAIN before :
                   tree'.node[n].tsum =
                      IF n = root THEN (before[n].tsum + last'.val) % Modulus
                      ELSE before[n].tsum]_vars

(***************************************************************************)
(* C10 - Terminal correctness: with non-negative weights and any prunes,   *)
(* every node without children has local > 0, except the root of a tree    *)
(* into which nothing has been added.  (Stated here with the root exempt   *)
(* in every state, which the claim implies.)                               *)
(***************************************************************************)
TerminalCorrectness ==
    \A n \in Reach(tree.node) :
        (children(tree.node, n) = 0 /\ n # root) => tree.node[n].tsum > 0

(***************************************************************************)
(* C11 - Node-count accuracy: in every reachable state size() (the nodes   *)
(* counter) equals the number of live nodes reachable from the root, the   *)
(* root not counted; and every live node is reachable.                     *)
(***************************************************************************)
NodeCountAccurate ==
    /\ tree.nodes = Cardinality(Reach(tree.node)) - 1
    /\ DOMAIN tree.node = Reach(tree.node)

\* Nodes have been created and some of them pruned away again.
NodeCountWitness ==
    /\ tree.pruned > 0
    /\ tree.nodes > 0
    /\ tree.ctr_added > tree.nodes
    /\ tree.nodes = Cardinality(Reach(tree.node)) - 1

(***************************************************************************)
(* C12 - Parent consistency: every node reachable from the root is either  *)
(* the root, which has no parent, or has a parent one of whose child slots *)
(* refers to it; and no node is referred to by more than one child slot.   *)
(***************************************************************************)
ChildSlots(h, n) ==
    {s \in (DOMAIN h) \X {"ptr0", "ptr1"} : h[s[1]][s[2]] = n}

ParentConsistent ==
    \A n \in Reach(tree.node) :
        /\ IF n = root THEN tree.node[n].parent = NULL
           ELSE /\ tree.node[n].parent \in DOMAIN tree.node
                /\ <<tree.node[n].parent, "ptr0">> \in ChildSlots(tree.node, n)
                    \/ <<tree.node[n].parent, "ptr1">> \in ChildSlots(tree.node, n)
        /\ Cardinality(ChildSlots(tree.node, n)) <= 1

\* The root has both children, and a prune has freed a node below it.
ParentConsistentWitness ==
    /\ tree.pruned > 0
    /\ children(tree.node, root) = 2
    /\ tree.nodes >= 3
    /\ \A n \in Reach(tree.node) \ {root} :
          tree.node[n].parent \in Reach(tree.node)

(***************************************************************************)
(* C13 - Interleave round-trip: for all addresses a1, a2 of one length     *)
(* L <= IP6_ADDR_LEN, un_pair of the buffer that add_pair's interleaving   *)
(* builds returns a1 and a2 (in zero-filled IPv6-sized buffers), and for   *)
(* every depth d it returns depth1 = ceil(d/2) and depth2 = floor(d/2),    *)
(* which add up to d.                                                      *)
(***************************************************************************)
Pad(a) == [j \in 1..IP6_ADDR_LEN |-> IF j <= Len(a) THEN a[j] ELSE 0]

InterleaveRoundTrip ==
    last.op = "un_pair" =>
        /\ last.out.addr1 = Pad(last.addr1)
        /\ last.out.addr2 = Pad(last.addr2)
        /\ 2 * last.out.depth1 \in {last.depth, last.depth + 1}
        /\ 2 * last.out.depth2 \in {last.depth - 1, last.depth}
        /\ last.out.depth1 + last.out.depth2 = last.depth

\* Two different full-length addresses, both with bits set, come back from
\* an odd depth.
InterleaveRoundTripWitness ==
    /\ last.op = "un_pair"
    /\ Len(last.addr1) = IP6_ADDR_LEN
    /\ last.addr1 # last.addr2
    /\ last.addr1[IP6_ADDR_LEN] = 1
    /\ last.addr2[1] = Pow2(BYTE_BITS) - 2
    /\ last.depth = 3
    /\ last.out.depth1 = 2
    /\ last.out.depth2 = 1
    /\ last.out.addr1 = last.addr1
    /\ last.out.addr2 = last.addr2

(***************************************************************************)
(* C14 - Unpruned tree shape: as long as no prune has occurred and every   *)
(* add used the same key length len with weight > 0, size() is the number  *)
(* of distinct non-empty bit-prefixes of the inserted keys, and            *)
(* get_histogram yields exactly one entry per distinct key, at depth       *)
(* 8*len, the counts being the weights added (their sum is the total; with *)
(* one key its count is the total).  Checked with positive weights only.   *)
(***************************************************************************)
BitsOf(k, d) == [i \in 1..d |-> bit(k, i - 1)]

Prefixes(keys) ==
    UNION {{BitsOf(k, d) : d \in 1..(Len(k) * BYTE_BITS)} : k \in keys}

PadTo(k, width) == [j \in 1..width |-> IF j <= Len(k) THEN k[j] ELSE 0]

SameLength(keys) == \A k1 \in keys, k2 \in keys : Len(k1) = Len(k2)

UnprunedShape ==
    (tree.pruned = 0 /\ ~tree.aborted /\ inserted # {} /\ SameLength(inserted)) =>
        LET hist == histogram(tree)
            e == hist.entries
        IN  /\ tree.nodes = Cardinality(Prefixes(inserted))
            /\ ~hist.overrun
            /\ Len(e) = Cardinality(inserted)
            /\ {<<e[i].addr, e[i].depth>> : i \in 1..Len(e)} =
                  {<<PadTo(k, tree.ADDRBYTES), Len(k) * BYTE_BITS>> : k \in inserted}
            /\ CountSum(e) = total
            /\ \A i \in 1..Len(e) : e[i].count > 0

(***************************************************************************)
(* C15 - Prune-to-90% post-condition: whenever prune_if_greater is entered *)
(* with node_count >= max_nodes it returns with node_count <=              *)
(* floor(9*max_nodes/10), and in every case node_count <= max_nodes when   *)
(* it returns; for the direct calls and for the call that add makes first. *)
(***************************************************************************)
PruneTarget(t) == (9 * t.maxnodes) \div 10

PruneToNinetyPercent ==
    [][/\ (last'.op = "prune_if_greater" /\ ~tree'.aborted) =>
             /\ tree'.nodes <= tree'.maxnodes
             /\ tree.nodes >= tree.maxnodes => tree'.nodes <= PruneTarget(tree)
       /\ (last'.op \in {"add", "add_pair"} /\ ~tree'.aborted) =>
             /\ last'.pruned_size <= tree.maxnodes
             /\ tree.nodes >= tree.maxnodes => last'.pruned_size <= PruneTarget(tree)
      ]_vars

\* prune_if_greater has just brought a tree of max_nodes = MaxNodesArg down
\* to 90% of it.
PruneToNinetyPercentWitness ==
    /\ last.op = "prune_if_greater"
    /\ ~tree.aborted
    /\ tree.maxnodes = MaxNodesArg
    /\ tree.pruned > 0
    /\ tree.nodes = PruneTarget(tree)
    /\ tree.nodes > 0

(***************************************************************************)
(* C16 - Selector and prune preconditions always hold: in every state      *)
(* reachable by adds with non-negative weights and by prune() and          *)
(* prune_if_greater() calls, prune() on an empty tree included, no assert  *)
(* of best_to_prune or node::prune fails and no absent child is            *)
(* dereferenced.                                                           *)
(***************************************************************************)
SelectorPreconditionsHold == ~tree.aborted

(***************************************************************************)
(* C17 - Prune action effect and frame: a prune() that returns 1 on the    *)
(* chosen node n adds the local counts of n's present children to n.local, *)
(* removes exactly those children, so that n has no children and is        *)
(* terminal, decreases node_count and increases pruned_counter by the      *)
(* number of children removed, and leaves every other node's local count,  *)
(* children and parent unchanged.                                          *)
(***************************************************************************)
Kids(h, n) == {h[n].ptr0, h[n].ptr1} \ {NULL}

KidsLocal(h, n) ==
    (IF h[n].ptr0 # NULL THEN h[h[n].ptr0].tsum ELSE 0)
      + (IF h[n].ptr1 # NULL THEN h[h[n].ptr1].tsum ELSE 0)

PruneEffectAndFrame ==
    [][(last'.op = "prune" /\ last'.ret = 1 /\ ~tree'.aborted) =>
         \E n \in DOMAIN tree.node :
            /\ Kids(tree.node, n) # {}
            /\ DOMAIN tree'.node = DOMAIN tree.node \ Kids(tree.node, n)
            /\ tree'.node[n].tsum =
                  (tree.node[n].tsum + KidsLocal(tree.node, n)) % Modulus
            /\ children(tree'.node, n) = 0
            /\ term(tree'.node, n)
            /\ tree'.node[n].parent = tree.node[n].parent
            /\ tree'.nodes = tree.nodes - Cardinality(Kids(tree.node, n))
            /\ tree'.pruned = tree.pruned + Cardinality(Kids(tree.node, n))
            /\ \A m \in DOMAIN tree'.node \ {n} :
                  /\ tree'.node[m].tsum = tree.node[m].tsum
                  /\ tree'.node[m].ptr0 = tree.node[m].ptr0
                  /\ tree'.node[m].ptr1 = tree.node[m].ptr1
                  /\ tree'.node[m].parent = tree.node[m].parent]_vars

(***************************************************************************)
(* C18 - A terminal node cannot be extended: once a node has local > 0     *)
(* and no children, no later add attaches a child to it (compared with the *)
(* tree that add's own prune_if_greater step leaves).                      *)
(***************************************************************************)
TerminalNotExtended ==
    [][(last'.op = "add" /\ ~tree'.aborted) =>
         LET before == prune_if_greater(tree, tree.maxnodes).node
         IN  \A n \in DOMAIN before :
                term(before, n) =>
                    /\ n \in DOMAIN tree'.node
                    /\ children(tree'.node, n) = 0]_vars

(***************************************************************************)
(* C19 - prune_if_greater terminates: with positive weights, each prune()  *)
(* that returns 1 strictly decreases node_count, by 1 or 2, and prune()    *)
(* returns 0 only when no non-root node is left (and then changes          *)
(* nothing), so the loop of prune_if_greater, whose every iteration is     *)
(* one such prune(), ends after at most node_count iterations.             *)
(***************************************************************************)
PruneMakesProgress ==
    [][(last'.op = "prune" /\ ~tree'.aborted) =>
         /\ last'.ret \in {0, 1}
         /\ last'.ret = 1 =>
               /\ tree'.nodes >= 0
               /\ tree.nodes - tree'.nodes \in {1, 2}
         /\ last'.ret = 0 =>
               /\ tree.nodes = 0
               /\ tree' = tree]_vars

\* Two keys that part at the root have been folded away completely: the
\* last prune() removed both children of the root and left no node.
PruneMakesProgressWitness ==
    /\ last.op = "prune"
    /\ last.ret = 1
    /\ ~tree.aborted
    /\ Cardinality(inserted) = 2
    /\ tree.cache_misses = 2
    /\ tree.nodes = 0
    /\ tree.ctr_added = 2 * IP4Bits
    /\ tree.pruned = tree.ctr_added
    /\ term(tree.node, root)

(***************************************************************************)
(* C20 - Bounded overshoot: for max_nodes >= 1, in every state reachable   *)
(* by add calls and prunes, node_count <= max_nodes - 1 + 8*ADDRBYTES: one *)
(* add exceeds the ceiling by at most one full key path.                   *)
(***************************************************************************)
BoundedOvershoot ==
    tree.maxnodes >= 1 =>
        tree.nodes <= tree.maxnodes - 1 + tree.ADDRBYTES * BYTE_BITS

\* With max_nodes = 1 an add has pruned every node away and has then
\* created a whole key path: the bound is attained.
BoundedOvershootWitness ==
    /\ last.op = "add"
    /\ ~tree.aborted
    /\ tree.maxnodes = 1
    /\ tree.pruned > 0
    /\ last.pruned_size = 0
    /\ tree.nodes = tree.maxnodes - 1 + tree.ADDRBYTES * BYTE_BITS

(***************************************************************************)
(* C21 - Counter balance: in every reachable state node_count =            *)
(* added_counter - pruned_counter.                                         *)
(***************************************************************************)
CounterBalance == tree.nodes = tree.ctr_added - tree.pruned

\* An add has created nodes after earlier ones had been pruned.
CounterBalanceWitness ==
    /\ last.op = "add"
    /\ ~tree.aborted
    /\ tree.pruned > 0
    /\ tree.nodes > last.pruned_size
    /\ tree.ctr_added > tree.nodes
    /\ tree.nodes = tree.ctr_added - tree.pruned

(***************************************************************************)
(* C22 - Dirty is upward-closed: in every reachable state every ancestor   *)
(* of a dirty node is dirty, and after any add the node the weight was     *)
(* applied to (found by the walk or by a cache hit) and all its ancestors  *)
(* are dirty.                                                              *)
(***************************************************************************)
RECURSIVE Ancestors(_, _)
Ancestors(h, n) ==
    IF h[n].parent = NULL THEN {}
    ELSE {h[n].parent} \cup Ancestors(h, h[n].parent)

DirtyClosed ==
    \A n \in Reach(tree.node) :
        tree.node[n].dirty =>
            \A a \in Ancestors(tree.node, n) : tree.node[a].dirty

\* The node that add(addr, Len(addr), val) applies the weight to.
AddTarget(before, after, addr) ==
    LET i == cache_search(before.cache, addr, Len(addr))
    IN  IF i >= 0 THEN before.cache[i].ptr
        ELSE NodeAt(after.node, addr, Len(addr) * BYTE_BITS)

AddMakesDirty ==
    \A addr \in Keys :
        (/\ last'.op = "add"
         /\ last'.addrlen = Len(addr)
         /\ ~tree'.aborted
         /\ tree' = add(tree, addr, Len(addr), last'.val, TRUE)) =>
            LET before == prune_if_greater(tree, tree.maxnodes)
                n == AddTarget(before, tree', addr)
            IN  /\ n \in DOMAIN tree'.node
                /\ tree'.node[n].dirty
                /\ \A a \in Ancestors(tree'.node, n) : tree'.node[a].dirty

DirtyUpwardClosed == []DirtyClosed /\ [][AddMakesDirty]_vars

\* A weight has just been applied through a cache hit to a node below the
\* root, and the whole tree is dirty.
DirtyUpwardClosedWitness ==
    /\ last.op = "add"
    /\ ~tree.aborted
    /\ tree.cache_hits > 0
    /\ tree.nodes > 0
    /\ \A n \in Reach(tree.node) : tree.node[n].dirty

(***************************************************************************)
(* C23 - No duplicate cache entries: in every reachable state no node is   *)
(* referred to by more than one non-empty cache slot, so that              *)
(* cache_remove, which clears the first matching slot only, leaves no      *)
(* reference to a freed node.                                              *)
(***************************************************************************)
NoDuplicateCacheEntries ==
    \A i \in CacheSlots :
        tree.cache[i].ptr # NULL =>
            /\ tree.cache[i].ptr \in DOMAIN tree.node
            /\ \A j \in CacheSlots \ {i} : tree.cache[j].ptr # tree.cache[i].ptr

\* cachenext has gone round and a slot has been written a second time,
\* nodes have been pruned, an add has hit the cache, and three slots are
\* in use, each for another node.
NoDuplicateCacheEntriesWitness ==
    /\ ~tree.aborted
    /\ tree.cache_misses > cache_size
    /\ tree.cache_hits > 0
    /\ tree.pruned > 0
    /\ Cardinality({i \in CacheSlots : tree.cache[i].ptr # NULL}) >= 3
    /\ Cardinality({tree.cache[i].ptr : i \in CacheSlots} \ {NULL}) >= 3

====
